---------------------------- MODULE Spec2Model ----------------------------
(***************************************************************************)
(* A model of the word-chain game server: class GameRoom (the room model)  *)
(* and the socket event handlers that drive one room of the room table.    *)
(*                                                                         *)
(* `room' holds the fields of the GameRoom object, `rooms' the router's    *)
(* table, `pending' the timeouts of the event loop that have been set and  *)
(* neither cleared nor run.  Every action is one handler run to the end    *)
(* (node runs each event handler and each timer callback to completion).   *)
(***************************************************************************)
EXTENDS Integers, Sequences, FiniteSets, TLC

VARIABLES
    room,       \* the GameRoom object's fields
    rooms,      \* socketEvents.js `rooms': the ids the table maps
    pending,    \* timeouts set and not yet cleared or run: [id, kind]
    crashed,    \* the process died of an exception no handler caught
    out,        \* what the Room emitted during the last handler
    reply,      \* what the router emitted during the last handler
    op,         \* the last handler: [name, user, word]
    ret,        \* what the Room method called by the last handler returned
    verdict,    \* reason of the last validateWordPlay result
    winners,    \* the array the last determineWinner returned
    ending,     \* the runs of the router's endGame handler, in order of arrival
    stats,      \* the Users table: gamesPlayed and gamesWon by username
    fault,      \* which calls of io.to(...).emit raise, see EmitRaises
    turns,      \* the turn before and after each of the last calls of nextTurn
    other,      \* the GameRoom the table maps a second id to, Null if none
    events      \* how many handlers and timer callbacks have run

vars == <<room, rooms, pending, crashed, out, reply, op, ret, verdict, winners,
          ending, stats, fault, turns, other, events>>

----------------------------------------------------------------------------
(* Bounds and inputs *)

NumUsers == 3

\* the handlers and timer callbacks of one run
MaxEvents == 6

\* the largest score of the score maps determineWinner is applied to
MaxPoints == 3

\* the endGame events of one run that find the room in the table
MaxEnds == 2

\* the emits of a handler of which one may be the one that raises
MaxFault == 3

\* the highest score of a player of the two rooms that end side by side
TwoRoomsPoints == 1

\* the users who play in the two rooms and send their endGame events
TwoRoomsUsers == 2

UserName == <<"A", "B", "C", "D", "E", "F">>

Users == {UserName[i] : i \in 1..NumUsers}

\* the clients that join and leave where a room is to be filled
NumJoiners == 5

Joiners == {UserName[i] : i \in 1..NumJoiners}

Creator == "A"

RoomId == "room_1"

\* the id of a room made by a second createRoom
OtherId == "room_2"

\* JavaScript's undefined (turnOrder[i] out of range) and NaN (x % 0)
Undefined == "undefined"

NaN == -1

\* a cleared or never set timer field
Null == 0

\* values of `fault': no emit raises, every emit raises, or (k in 1..MaxFault)
\* the k-th emit of each handler and timer callback raises and no other
NoFault == 0

Always == -1

maxPlayers == 4

\* Words are sequences of characters.
apple == <<"a", "p", "p", "l", "e">>

Apple == <<"A", "p", "p", "l", "e">>

elephant == <<"e", "l", "e", "p", "h", "a", "n", "t">>

eve == <<"e", "v", "e">>

\* "eve " with a trailing blank
eveSp == <<"e", "v", "e", " ">>

xyz == <<"x", "y", "z">>

\* lastWord = null; `!this.lastWord' is also true of the empty string
NoWord == <<>>

\* the lines of words.txt
WordFile == {apple, elephant, eve}

\* the words a client submits
Words == {apple, Apple, elephant, eve, eveSp, xyz}

\* a `word' that is no string (the client left it out of the event's data)
NotAString == <<"undefined">>

IsString(w) == w # NotAString

----------------------------------------------------------------------------
(* Strings *)

Lower(c) ==
    CASE c = "A" -> "a"
      [] c = "E" -> "e"
      [] OTHER -> c

ToLowerCase(w) == [i \in 1..Len(w) |-> Lower(w[i])]

RECURSIVE TrimStart(_)
TrimStart(w) ==
    IF w # <<>> /\ Head(w) = " " THEN TrimStart(Tail(w)) ELSE w

RECURSIVE TrimEnd(_)
TrimEnd(w) ==
    IF w # <<>> /\ w[Len(w)] = " " THEN TrimEnd(SubSeq(w, 1, Len(w) - 1)) ELSE w

Trim(w) == TrimEnd(TrimStart(w))

\* word.charAt(0): "" when the word is empty
CharAt0(w) == IF w = <<>> THEN "" ELSE w[1]

\* lastWord.slice(-1)
LastChar(w) == IF w = <<>> THEN "" ELSE w[Len(w)]

Range(s) == {s[i] : i \in 1..Len(s)}

\* every order of the elements of S
Orderings(S) ==
    {s \in [1..Cardinality(S) -> S] : Range(s) = S}

----------------------------------------------------------------------------
(* Notifications *)

\* io.to(<to>).emit(<ev>, payload): `to' is "room" or a player, `who' the
\* player the payload names, `word' its word, `reason' its reason or message
Notif(ev, to, who, word, reason) ==
    [ev |-> ev, to |-> to, who |-> who, word |-> word, reason |-> reason]

Events(s) == {s[i].ev : i \in 1..Len(s)}

----------------------------------------------------------------------------
(* class GameRoom.  A method takes and returns an execution context c:      *)
(* c.r the object's fields, c.p the pending timeouts, c.o the notifications *)
(* emitted so far, c.ret the value returned, c.threw whether it raised.     *)
(* A method applied to a context that has raised leaves it as it is: the    *)
(* statements after a throw are not executed, up to the next catch.         *)

Ctx(r, p) ==
    [r |-> r, p |-> p, o |-> <<>>, ret |-> TRUE, threw |-> FALSE,
     \* the calls of io.to(...).emit so far, and which of them raise
     n |-> 0, f |-> fault]

Return(c, v) == [c EXCEPT !.ret = v]

Throw(c) == [c EXCEPT !.threw = TRUE]

\* a catch clause took the exception
Caught(c) == [c EXCEPT !.threw = FALSE]

\* the room as the constructor leaves it; wordList is what loadWordList returned
NewRoom(wordList) ==
    [ isRoomActive |-> TRUE,
      isGameStarted |-> FALSE,
      isGameEnded |-> FALSE,
      playersMap |-> [u \in {Creator} |-> 0],
      usedWordSet |-> {},
      lastWord |-> NoWord,
      roomExpiryTimer |-> 1,
      gameEndTimer |-> Null,
      roundTimer |-> Null,
      currentTurn |-> Creator,
      turnOrder |-> <<>>,
      currentTurnIndex |-> 0,
      validWords |-> wordList ]

ClearTimeout(c, h) == [c EXCEPT !.p = {t \in @ : t.id # h}]

\* the handle of a new timeout: one no pending timeout and no other field holds
FreshHandle(c, others) ==
    LET used == {t.id : t \in c.p} \cup others
    IN  CHOOSE h \in 1..(Cardinality(used) + 1) :
            /\ h \notin used
            /\ \A g \in 1..(h - 1) : g \in used

SetTimeout(c, h, kind) == [c EXCEPT !.p = @ \cup {[id |-> h, kind |-> kind]}]

\* whether the next call of io.to(...).emit raises
EmitRaises(c) == c.f = Always \/ c.f = c.n + 1

\* io.to(...).emit(...): the notification goes out, or the call raises
IoToEmit(c, notif) ==
    IF c.threw THEN c
    ELSE IF EmitRaises(c) THEN Throw([c EXCEPT !.n = @ + 1])
    ELSE [c EXCEPT !.n = @ + 1, !.o = Append(@, notif)]

RECURSIVE Broadcast(_, _, _, _, _)
HandleError(c, context) ==
    Broadcast(c, "errorOccurred", "", NoWord, context)

\* the catch clause emits errorOccurred outside any try, then handleError
\* broadcasts once more
Broadcast(c, ev, who, word, reason) ==
    LET c1 == IoToEmit(c, Notif(ev, "room", who, word, reason))
        c2 == IoToEmit(Caught(c1),
                       Notif("errorOccurred", "room", "", NoWord, "broadcast error"))
    IN  IF c.threw \/ ~c1.threw THEN c1
        ELSE HandleError(c2, "broadcasting event")

\* true when the player has a socket id in playersMap
GetUserSocket(c, username) == username \in DOMAIN c.r.playersMap

SendToPlayer(c, username, ev, reason) ==
    LET c1 == IoToEmit(c, Notif(ev, username, "", NoWord, reason))
        c2 == HandleError(Caught(c1), "sending message")
        c3 == IoToEmit(c2, Notif("redirectMainPage", username, "", NoWord,
                                 "server runtime"))
    IN  IF c.threw THEN c
        ELSE IF ~GetUserSocket(c, username)
        THEN Return(HandleError(c, "sending message"), FALSE)
        ELSE IF ~c1.threw THEN Return(c1, TRUE)
        ELSE Return(c3, FALSE)

\* a variant that adds a player to a full room
AddPlayer_NoLimit(c, username) ==
    IF username \in DOMAIN c.r.playersMap
    THEN Return(HandleError(c, "already exists"), FALSE)
    ELSE Return([c EXCEPT !.r.playersMap =
                    [u \in DOMAIN @ \cup {username} |->
                        IF u = username THEN 0 ELSE @[u]]], TRUE)

AddPlayer(c, username) ==
    IF Cardinality(DOMAIN c.r.playersMap) >= maxPlayers
    THEN Return(HandleError(c, "Room is full"), FALSE)
    ELSE IF username \in DOMAIN c.r.playersMap
    THEN Return(HandleError(c, "already exists"), FALSE)
    ELSE Return([c EXCEPT !.r.playersMap =
                    [u \in DOMAIN @ \cup {username} |->
                        IF u = username THEN 0 ELSE @[u]]], TRUE)

\* a variant of endGame that ends the game and leaves the room active
EndGame_RoomLeftActive(c) ==
    Return([c EXCEPT !.r.isGameStarted = FALSE, !.r.isGameEnded = TRUE], TRUE)

\* endGame() reads the undeclared identifiers `username' and `word' in its
\* first statement: a ReferenceError, before anything is assigned
EndGame(c) == Throw(c)

\* turnOrder[i], 0-based: undefined when i is NaN or out of range
At(seq, i) == IF i \in 0..(Len(seq) - 1) THEN seq[i + 1] ELSE Undefined

\* (i + 1) % n: NaN when i is NaN or n is 0
NextIndex(i, n) == IF i = NaN \/ n = 0 THEN NaN ELSE (i + 1) % n

\* seq with its first occurrence of x spliced out
Splice(seq, x) ==
    IF x \notin Range(seq) THEN seq
    ELSE LET k == CHOOSE i \in 1..Len(seq) :
                    seq[i] = x /\ \A j \in 1..(i - 1) : seq[j] # x
         IN  SubSeq(seq, 1, k - 1) \o SubSeq(seq, k + 1, Len(seq))

RemovePlayer(c, username) ==
    IF username \notin DOMAIN c.r.playersMap THEN Return(c, FALSE)
    ELSE
      LET c1 == [c EXCEPT
                    !.r.playersMap = [u \in DOMAIN @ \ {username} |-> @[u]],
                    !.r.turnOrder = Splice(@, username)]
          \* the player removed held the turn
          c2 == IF Len(c1.r.turnOrder) > 0
                THEN LET i == NextIndex(c1.r.currentTurnIndex, Len(c1.r.turnOrder))
                     IN  [c1 EXCEPT !.r.currentTurnIndex = i,
                                    !.r.currentTurn = At(c1.r.turnOrder, i)]
                ELSE EndGame(c1)
          c3 == Broadcast(c2, "turnChanged", c2.r.currentTurn, NoWord, "")
      IN  IF c1.r.currentTurn # username THEN Return(c1, TRUE)
          ELSE IF c3.threw
          THEN \* the catch clause reports the exception and returns false
               Return(HandleError(Caught(c3), "removing player"), FALSE)
          ELSE Return(c3, TRUE)

IsWordUsed(c, word) == ToLowerCase(word) \in c.r.usedWordSet

AddUsedWords(c, word) ==
    [c EXCEPT !.r.usedWordSet = @ \cup {ToLowerCase(word)},
              !.r.lastWord = ToLowerCase(word)]

AddPoints(c, username, points) ==
    IF username \in DOMAIN c.r.playersMap
    THEN [c EXCEPT !.r.playersMap[username] = @ + points]
    ELSE c

\* order: the outcome of sorting the other players with a random comparator
InitializeTurnOrder(c, order) ==
    [c EXCEPT !.r.turnOrder = <<Creator>> \o order,
              !.r.currentTurnIndex = 0,
              !.r.currentTurn = Creator]

IsPlayerTurn(c, username) == c.r.currentTurn = username

\* the Set loadWordList returns when words.txt can be read
LoadedWordList == [loaded |-> TRUE, words |-> WordFile]

\* a variant that falls back on a list of words when words.txt cannot be read
FailedWordList_FallsBack == [loaded |-> TRUE, words |-> WordFile]

\* what it returns otherwise: the boolean broadcast() returned
FailedWordList == [loaded |-> FALSE, words |-> {}]

\* the catch clause of loadWordList: it reports the error to the room and
\* sends the room to the main page
LoadWordListFailed(c) ==
    Broadcast(HandleError(c, "loading word list"),
              "redirectMainPage", "", NoWord, "loading the word list")

\* word.toLowerCase() raises a TypeError when word is no string, and
\* validWords.has(...) when loadWordList returned a boolean
IsValidWordThrows(c, word) == ~IsString(word) \/ ~c.r.validWords.loaded

IsValidWord(c, word) == Trim(ToLowerCase(word)) \in c.r.validWords.words

NextTurn(c) ==
    LET i == NextIndex(c.r.currentTurnIndex, Len(c.r.turnOrder))
        c1 == [c EXCEPT !.r.currentTurnIndex = i,
                        !.r.currentTurn = At(c.r.turnOrder, i)]
    IN  IF c.threw THEN c
        ELSE Broadcast(c1, "turnChanged", c1.r.currentTurn, NoWord, "")

Verdict(c, valid, reason) == [valid |-> valid, reason |-> reason, c |-> c]

\* a variant that never looks the word up in usedWordSet
ValidateWordPlay_NoUsedCheck(c, username, word) ==
    IF ~IsPlayerTurn(c, username) THEN Verdict(c, FALSE, "NotYourTurn")
    ELSE IF IsValidWordThrows(c, word)
    THEN Verdict(HandleError(c, "validating word play"), FALSE, "UnexpectedError")
    ELSE IF ~IsValidWord(c, word) THEN Verdict(c, FALSE, "InvalidWord")
    ELSE IF c.r.lastWord = NoWord THEN Verdict(c, TRUE, "FirstWord")
    ELSE IF Lower(CharAt0(word)) # Lower(LastChar(c.r.lastWord))
    THEN Verdict(c, FALSE, "WrongStartingLetter")
    ELSE Verdict(c, TRUE, "ValidWord")

\* a variant that looks the word up in usedWordSet before it compares letters
ValidateWordPlay_UsedFirst(c, username, word) ==
    IF ~IsPlayerTurn(c, username) THEN Verdict(c, FALSE, "NotYourTurn")
    ELSE IF IsValidWordThrows(c, word)
    THEN Verdict(HandleError(c, "validating word play"), FALSE, "UnexpectedError")
    ELSE IF ~IsValidWord(c, word) THEN Verdict(c, FALSE, "InvalidWord")
    ELSE IF c.r.lastWord = NoWord THEN Verdict(c, TRUE, "FirstWord")
    ELSE IF ToLowerCase(word) \in c.r.usedWordSet
    THEN Verdict(c, FALSE, "WordAlreadyUsed")
    ELSE IF Lower(CharAt0(word)) # Lower(LastChar(c.r.lastWord))
    THEN Verdict(c, FALSE, "WrongStartingLetter")
    ELSE Verdict(c, TRUE, "ValidWord")

\* a variant that checks the turn after the dictionary
ValidateWordPlay_DictionaryFirst(c, username, word) ==
    IF IsValidWordThrows(c, word)
    THEN Verdict(HandleError(c, "validating word play"), FALSE, "UnexpectedError")
    ELSE IF ~IsValidWord(c, word) THEN Verdict(c, FALSE, "InvalidWord")
    ELSE IF ~IsPlayerTurn(c, username) THEN Verdict(c, FALSE, "NotYourTurn")
    ELSE IF c.r.lastWord = NoWord THEN Verdict(c, TRUE, "FirstWord")
    ELSE IF Lower(CharAt0(word)) # Lower(LastChar(c.r.lastWord))
    THEN Verdict(c, FALSE, "WrongStartingLetter")
    ELSE IF ToLowerCase(word) \in c.r.usedWordSet
    THEN Verdict(c, FALSE, "WordAlreadyUsed")
    ELSE Verdict(c, TRUE, "ValidWord")

\* the result {valid, reason}, and the context after what handleError emitted
ValidateWordPlay(c, username, word) ==
    IF ~IsPlayerTurn(c, username) THEN Verdict(c, FALSE, "NotYourTurn")
    ELSE IF IsValidWordThrows(c, word)
    THEN Verdict(HandleError(c, "validating word play"), FALSE, "UnexpectedError")
    ELSE IF ~IsValidWord(c, word) THEN Verdict(c, FALSE, "InvalidWord")
    ELSE IF c.r.lastWord = NoWord THEN Verdict(c, TRUE, "FirstWord")
    ELSE IF Lower(CharAt0(word)) # Lower(LastChar(c.r.lastWord))
    THEN Verdict(c, FALSE, "WrongStartingLetter")
    ELSE IF ToLowerCase(word) \in c.r.usedWordSet
    THEN Verdict(c, FALSE, "WordAlreadyUsed")
    ELSE Verdict(c, TRUE, "ValidWord")

StartRound(c) ==
    LET c1 == IF c.r.roundTimer # Null THEN ClearTimeout(c, c.r.roundTimer) ELSE c
        h  == FreshHandle(c1, {c1.r.roomExpiryTimer, c1.r.gameEndTimer})
        c2 == [SetTimeout(c1, h, "round") EXCEPT !.r.roundTimer = h]
    IN  IF c.threw THEN c
        ELSE SendToPlayer(c2, c2.r.currentTurn, "yourTurn", "")

\* a variant that drops the round timer's handle without cancelling the timer
PlayWord_ForgetsTimer(c, username, word) ==
    LET v == ValidateWordPlay(c, username, word)
    IN  IF ~v.valid
        THEN Return(SendToPlayer(v.c, username, "wordPlayFailed", v.reason), FALSE)
        ELSE
          LET c1 == [c EXCEPT !.r.roundTimer = Null]
              c2 == AddPoints(c1, username, Len(word))
              c3 == AddUsedWords(c2, word)
              c4 == Broadcast(c3, "wordPlayed", username, word, "")
              c5 == NextTurn(c4)
              c6 == StartRound(c5)
              c7 == HandleError(Caught(c6), "processing word play")
          IN  IF ~c6.threw THEN Return(c6, TRUE)
              ELSE Return(SendToPlayer(c7, username, "wordPlayFailed",
                                       "error while processing"), FALSE)

PlayWord(c, username, word) ==
    LET v == ValidateWordPlay(c, username, word)
    IN  IF ~v.valid
        \* when handleError raised in validateWordPlay, sendToPlayer is not run
        THEN Return(SendToPlayer(v.c, username, "wordPlayFailed", v.reason), FALSE)
        ELSE
          LET c1 == IF c.r.roundTimer # Null
                    THEN ClearTimeout(c, c.r.roundTimer) ELSE c
              c2 == AddPoints(c1, username, Len(word))
              c3 == AddUsedWords(c2, word)
              c4 == Broadcast(c3, "wordPlayed", username, word, "")
              c5 == NextTurn(c4)
              c6 == StartRound(c5)
              \* the catch clause of playWord, outside any try itself
              c7 == HandleError(Caught(c6), "processing word play")
          IN  IF ~c6.threw THEN Return(c6, TRUE)
              ELSE Return(SendToPlayer(c7, username, "wordPlayFailed",
                                       "error while processing"), FALSE)

\* the start of a game, given that its two checks passed
BeginGame(c, order) ==
    LET c1 == InitializeTurnOrder(c, order)
        c2 == [c1 EXCEPT !.r.isGameStarted = TRUE,
                         !.r.isGameEnded = FALSE,
                         !.r.usedWordSet = {},
                         !.r.lastWord = NoWord]
        h  == FreshHandle(c2, {c2.r.roomExpiryTimer, c2.r.roundTimer})
        c3 == [SetTimeout(c2, h, "gameEnd") EXCEPT !.r.gameEndTimer = h]
        c4 == Broadcast(c3, "gameStarted", c3.r.currentTurn, NoWord, "")
    IN  Return(StartRound(c4), TRUE)

\* a variant that keeps the words played before the start
StartGame_KeepsWords(c, order) ==
    IF c.r.isGameStarted THEN Return(c, FALSE)
    ELSE IF Cardinality(DOMAIN c.r.playersMap) < 2
    THEN Return(Broadcast(c, "gameStartedFailed", "", NoWord, "Not enough players"),
                FALSE)
    ELSE LET c0 == BeginGame(c, order)
         IN  [c0 EXCEPT !.r.usedWordSet = c.r.usedWordSet,
                        !.r.lastWord = c.r.lastWord]

\* a variant that starts a game with one player
StartGame_OnePlayerEnough(c, order) ==
    IF c.r.isGameStarted THEN Return(c, FALSE)
    ELSE IF Cardinality(DOMAIN c.r.playersMap) < 1
    THEN Return(Broadcast(c, "gameStartedFailed", "", NoWord, "Not enough players"),
                FALSE)
    ELSE BeginGame(c, order)

\* a variant that starts a started game again
StartGame_Restarts(c, order) ==
    IF Cardinality(DOMAIN c.r.playersMap) < 2
    THEN Return(Broadcast(c, "gameStartedFailed", "", NoWord, "Not enough players"),
                FALSE)
    ELSE BeginGame(c, order)

StartGame(c, order) ==
    IF c.r.isGameStarted THEN Return(c, FALSE)
    ELSE IF Cardinality(DOMAIN c.r.playersMap) < 2
    THEN Return(Broadcast(c, "gameStartedFailed", "", NoWord, "Not enough players"),
                FALSE)
    ELSE BeginGame(c, order)

HandleRoundTimeout(c) ==
    LET c1 == AddPoints(c, c.r.currentTurn, 0)
        c2 == Broadcast(c1, "turnTimedOut", c1.r.currentTurn, NoWord, "")
    IN  StartRound(NextTurn(c2))

\* the loop of determineWinner over the entries of playersMap still to visit
\* (order), with the locals maxPoints and winners
RECURSIVE ScanWinners(_, _, _, _)
ScanWinners(c, order, maxPoints, found) ==
    IF order = <<>> THEN found
    ELSE LET username == Head(order)
             points == c.r.playersMap[username]
         IN  IF points > maxPoints
             THEN ScanWinners(c, Tail(order), points, <<username>>)
             ELSE IF points = maxPoints
             THEN ScanWinners(c, Tail(order), maxPoints, Append(found, username))
             ELSE ScanWinners(c, Tail(order), maxPoints, found)

\* a variant that keeps the first player to reach the highest score only
DetermineWinner_NoTies(c, order) ==
    LET w == ScanWinners(c, order, -1, <<>>)
    IN  IF w = <<>> THEN w ELSE <<Head(w)>>

\* order: the keys of playersMap in the order the Map iterates them, the
\* order of insertion
DetermineWinner(c, order) == ScanWinners(c, order, -1, <<>>)

ClearGameTimers(c) ==
    LET c1 == IF c.r.gameEndTimer # Null
              THEN [ClearTimeout(c, c.r.gameEndTimer) EXCEPT !.r.gameEndTimer = Null]
              ELSE c
        c2 == IF c1.r.roundTimer # Null
              THEN [ClearTimeout(c1, c1.r.roundTimer) EXCEPT !.r.roundTimer = Null]
              ELSE c1
    IN  IF c2.r.roomExpiryTimer # Null
        THEN [ClearTimeout(c2, c2.r.roomExpiryTimer) EXCEPT !.r.roomExpiryTimer = Null]
        ELSE c2

DeleteRoom(c, reason) ==
    LET c1 == ClearGameTimers(c)
        c2 == IF c1.r.roomExpiryTimer # Null
              THEN ClearTimeout(c1, c1.r.roomExpiryTimer) ELSE c1
    IN  Broadcast(c2, "roomDeleted", "", NoWord, reason)

----------------------------------------------------------------------------
(* The socket event handlers and the timer callbacks *)

Op(name, user, word) == [name |-> name, user |-> user, word |-> word]

\* the router's socket.emit(ev, {message}) to the socket of `user'
Emit(user, ev, message) == Notif(ev, user, "", NoWord, message)

RetOf(c) == IF c.threw THEN "threw" ELSE IF c.ret THEN "true" ELSE "false"

\* one more handler or timer callback runs
Tick == events < MaxEvents /\ events' = events + 1

\* the handler found no room under roomId: it answers and returns
NotFound(roomId, name, user, word, message) ==
    /\ Tick
    /\ roomId \notin rooms
    /\ reply' = <<Emit(user, "errorOccurred", message)>>
    /\ op' = Op(name, user, word)
    /\ ret' = "none"
    /\ out' = <<>>
    /\ verdict' = ""
    /\ turns' = <<>>
    /\ UNCHANGED <<room, rooms, pending, crashed, winners, ending, stats, fault,
                   other>>

\* the same for the room the model follows
RoomNotFound(name, user, word, message) ==
    NotFound(RoomId, name, user, word, message)

\* the handler ran the Room method to context c and answered `answer'
Handled(name, user, word, c, answer, reason) ==
    /\ Tick
    /\ room' = c.r
    /\ pending' = c.p
    /\ out' = c.o
    /\ ret' = RetOf(c)
    /\ reply' = answer
    /\ op' = Op(name, user, word)
    /\ verdict' = reason
    /\ turns' = <<>>
    /\ UNCHANGED <<crashed, winners, ending, stats, fault, other>>

\* a row of the Users table as createUser inserts it
NoStats == [gamesPlayed |-> 0, gamesWon |-> 0]

NewUsers == [u \in Range(UserName) |-> NoStats]

\* a run of the endGame handler: the roomId and the socket of the event, the
\* array
\* determineWinner returned, the position of the loop in it, the await the
\* run is suspended at ("read", "write") or how it ended, userStats, and the
\* winners whose update console.error has reported
EndRun(roomId, by, w) ==
    [roomId |-> roomId, by |-> by, winners |-> w, i |-> 1, got |-> NoStats, logged |-> {},
     pc |-> IF w = <<>> THEN "done" ELSE "read"]

\* the loop takes the next winner; after the last one the handler broadcasts
\* gameEnded and deletes the room
NextWinner(e) ==
    IF e.i < Len(e.winners)
    THEN [e EXCEPT !.i = @ + 1, !.pc = "read", !.got = NoStats]
    ELSE [e EXCEPT !.pc = "done", !.got = NoStats]

\* a variant without the try around a winner's update: the rejection reaches
\* the handler's outer catch
StatsError_EndsHandler(e) == [e EXCEPT !.pc = "failed", !.got = NoStats]

\* the catch around one winner's update logs the rejection
StatsError(e) == NextWinner([e EXCEPT !.logged = @ \cup {e.winners[e.i]}])

\* a step of the endGame handler that leaves its runs as es and the table of
\* users as st; k is the run that took the step
EndGameStep(name, k, es, st) ==
    /\ Tick
    /\ ending' = es
    /\ stats' = st
    /\ reply' = CASE es[k].pc = "done" ->
                       <<Notif("gameEnded", "room", "", NoWord, "")>>
                  [] es[k].pc = "failed" ->
                       <<Emit(es[k].by, "errorOccurred", "Error ending game")>>
                  [] OTHER -> <<>>
    /\ rooms' = IF es[k].pc = "done" THEN rooms \ {es[k].roomId} ELSE rooms
    /\ op' = Op(name, es[k].by, NoWord)
    /\ ret' = "none"
    /\ out' = <<>>
    /\ verdict' = ""
    /\ turns' = <<>>
    /\ UNCHANGED <<room, pending, crashed, fault, other>>

Init ==
    /\ fault = NoFault
    /\ room = NewRoom(LoadedWordList)
    /\ rooms = {RoomId}
    /\ pending = {[id |-> 1, kind |-> "expiry"]}
    /\ crashed = FALSE
    /\ out = <<>>
    /\ reply = <<Emit(Creator, "roomCreated", "Room created successfully")>>
    /\ op = Op("createRoom", Creator, NoWord)
    /\ ret = "none"
    /\ verdict = ""
    /\ winners = <<>>
    /\ ending = <<>>
    /\ stats = NewUsers
    /\ turns = <<>>
    /\ other = Null
    /\ events = 0

JoinRoom(u) ==
    /\ ~crashed
    /\ \/ RoomNotFound("joinRoom", u, NoWord, "Room does not exist")
       \/ /\ RoomId \in rooms
          /\ LET c == AddPlayer(Ctx(room, pending), u)
                 \* the router's own io.to(roomId).emit
                 cj == IoToEmit(c, Notif("playerJoined", "room", u, NoWord, ""))
             IN  Handled("joinRoom", u, NoWord, c,
                     IF c.threw \/ (c.ret /\ cj.threw)
                     THEN <<Emit(u, "errorOccurred", "Error joining room")>>
                     ELSE IF c.ret
                     THEN <<Notif("playerJoined", "room", u, NoWord, ""),
                            Emit(u, "roomJoined", "")>>
                     ELSE <<Emit(u, "errorOccurred", "Failed to join room")>>,
                     "")
          /\ UNCHANGED rooms

SocketStartGame(u) ==
    /\ ~crashed
    /\ \/ RoomNotFound("startGame", u, NoWord, "Room not found")
       \/ /\ RoomId \in rooms
          /\ \E order \in Orderings(DOMAIN room.playersMap \ {Creator}) :
               LET c == StartGame(Ctx(room, pending), order)
               IN  Handled("startGame", u, NoWord, c,
                       IF c.threw
                       THEN <<Emit(u, "errorOccurred", "Error starting game")>>
                       ELSE IF c.ret THEN <<>>
                       ELSE <<Emit(u, "errorOccurred", "Failed to start game")>>,
                       "")
          /\ UNCHANGED rooms

SubmitWord(u, w) ==
    /\ ~crashed
    /\ \/ RoomNotFound("submitWord", u, w, "Room not found")
       \/ /\ RoomId \in rooms
          /\ LET c == PlayWord(Ctx(room, pending), u, w)
             IN  Handled("submitWord", u, w, c,
                         IF c.threw
                         THEN <<Emit(u, "errorOccurred", "Error submitting word")>>
                         ELSE <<>>,
                         ValidateWordPlay(Ctx(room, pending), u, w).reason)
          /\ UNCHANGED rooms

LeaveRoom(u) ==
    /\ ~crashed
    /\ \/ RoomNotFound("leaveRoom", u, NoWord, "Room not found")
       \/ /\ RoomId \in rooms
          /\ LET c == RemovePlayer(Ctx(room, pending), u)
                 \* the router's own io.to(roomId).emit
                 cl == IoToEmit(c, Notif("playerLeft", "room", u, NoWord, ""))
                 left == ~c.threw /\ c.ret /\ ~cl.threw
             IN  /\ Handled("leaveRoom", u, NoWord, c,
                        IF c.threw \/ (c.ret /\ cl.threw)
                        THEN <<Emit(u, "errorOccurred", "Error leaving room")>>
                        ELSE IF c.ret
                        THEN <<Notif("playerLeft", "room", u, NoWord, "")>>
                        ELSE <<Emit(u, "errorOccurred", "Failed to leave room")>>,
                        "")
                 /\ rooms' = IF left /\ DOMAIN c.r.playersMap = {}
                             THEN rooms \ {RoomId} ELSE rooms

\* the endGame event: the handler runs to its first await, or to its end
\* when there is no winner
SocketEndGame(u) ==
    /\ ~crashed
    /\ \/ /\ RoomNotFound("endGame", u, NoWord, "Room not found")
       \/ /\ RoomId \in rooms
          /\ Len(ending) < MaxEnds
          /\ \E order \in Orderings(DOMAIN room.playersMap) :
               /\ winners' = DetermineWinner(Ctx(room, pending), order)
               /\ EndGameStep("endGame", Len(ending) + 1,
                              Append(ending, EndRun(RoomId, u, winners')), stats)

\* getUserStatsByUsername settles and the run resumes: with the row read it
\* calls updateUserStatsByUserName, with a rejection it goes to the catch
StatsRead(k, ok) ==
    /\ ~crashed
    /\ k \in DOMAIN ending
    /\ ending[k].pc = "read"
    /\ LET e == ending[k]
           e2 == IF ok THEN [e EXCEPT !.pc = "write", !.got = stats[e.winners[e.i]]]
                 ELSE StatsError(e)
       IN  EndGameStep("statsRead", k, [ending EXCEPT ![k] = e2], stats)
    /\ UNCHANGED winners

\* updateUserStatsByUserName settles and the run resumes
StatsWritten(k, ok) ==
    /\ ~crashed
    /\ k \in DOMAIN ending
    /\ ending[k].pc = "write"
    /\ LET e == ending[k]
           row == [gamesPlayed |-> e.got.gamesPlayed + 1,
                   gamesWon |-> e.got.gamesWon + 1]
       IN  IF ok
           THEN EndGameStep("statsWritten", k,
                            [ending EXCEPT ![k] = NextWinner(e)],
                            [stats EXCEPT ![e.winners[e.i]] = row])
           ELSE EndGameStep("statsWritten", k,
                            [ending EXCEPT ![k] = StatsError(e)], stats)
    /\ UNCHANGED winners

\* a timer callback ran the Room method to context c
Fired(name, c) ==
    /\ Tick
    /\ room' = c.r
    /\ pending' = c.p
    /\ out' = c.o
    /\ ret' = RetOf(c)
    /\ reply' = <<>>
    /\ op' = Op(name, "", NoWord)
    /\ verdict' = ""
    \* an exception out of a timer callback ends the process
    /\ crashed' = c.threw
    /\ turns' = <<>>
    /\ UNCHANGED <<rooms, winners, ending, stats, fault, other>>

RoundTimerFires ==
    /\ ~crashed
    /\ \E t \in pending :
         /\ t.kind = "round"
         /\ Fired("roundTimer", HandleRoundTimeout(Ctx(room, pending \ {t})))

GameEndTimerFires ==
    /\ ~crashed
    /\ \E t \in pending :
         /\ t.kind = "gameEnd"
         /\ Fired("gameEndTimer", EndGame(Ctx(room, pending \ {t})))

RoomExpiryTimerFires ==
    /\ ~crashed
    /\ \E t \in pending :
         /\ t.kind = "expiry"
         /\ Fired("roomExpiryTimer",
                  DeleteRoom(Ctx(room, pending \ {t}), "Room expired"))

Next ==
    \/ \E u \in Users : JoinRoom(u)
    \/ \E u \in Users : SocketStartGame(u)
    \/ \E u \in Users, w \in Words \cup {NotAString} : SubmitWord(u, w)
    \/ \E u \in Users : LeaveRoom(u)
    \/ RoundTimerFires
    \/ GameEndTimerFires
    \/ RoomExpiryTimerFires

Spec == Init /\ [][Next]_vars

----------------------------------------------------------------------------
(* determineWinner applied to the score maps of a room *)

\* a room of one player or more, each with a score of 0..MaxPoints
WinnerInit ==
    /\ fault = NoFault
    /\ \E S \in SUBSET Users \ {{}} : \E scores \in [S -> 0..MaxPoints] :
          room = [NewRoom(LoadedWordList) EXCEPT !.playersMap = scores]
    /\ rooms = {RoomId}
    /\ pending = {[id |-> 1, kind |-> "expiry"]}
    /\ crashed = FALSE
    /\ out = <<>>
    /\ reply = <<>>
    /\ op = Op("createRoom", Creator, NoWord)
    /\ ret = "none"
    /\ verdict = ""
    /\ winners = <<>>
    /\ ending = <<>>
    /\ stats = NewUsers
    /\ turns = <<>>
    /\ other = Null
    /\ events = 0

DetermineWinnerCalled ==
    /\ op.name = "createRoom"
    /\ \E order \in Orderings(DOMAIN room.playersMap) :
          winners' = DetermineWinner(Ctx(room, pending), order)
    /\ op' = Op("determineWinner", "", NoWord)
    /\ UNCHANGED <<room, rooms, pending, crashed, out, reply, ret, verdict,
                   ending, stats, fault, turns, other, events>>

WinnerSpec == WinnerInit /\ [][DetermineWinnerCalled]_vars

----------------------------------------------------------------------------
(* endGame events and the steps of their handlers, among the events that    *)
(* change the players of the room and the timers                            *)

EndNext ==
    \/ \E u \in Users : JoinRoom(u)
    \/ \E u \in Users : SocketStartGame(u)
    \/ \E u \in Users : LeaveRoom(u)
    \/ \E u \in Users : SocketEndGame(u)
    \/ \E k \in 1..MaxEnds, ok \in BOOLEAN : StatsRead(k, ok)
    \/ \E k \in 1..MaxEnds, ok \in BOOLEAN : StatsWritten(k, ok)
    \/ RoundTimerFires
    \/ GameEndTimerFires
    \/ RoomExpiryTimerFires

EndSpec == Init /\ [][EndNext]_vars

----------------------------------------------------------------------------
(* nextTurn called on the rooms that joins, starts, leaves and round         *)
(* timeouts produce; `turns' is emptied by every handler and timer callback  *)

\* the turn as the room's fields spell it
Turn(r) == [who |-> r.currentTurn, idx |-> r.currentTurnIndex]

\* one call of nextTurn(), of at most turnOrder.length calls in a row
NextTurnCalled ==
    /\ ~crashed
    /\ Len(room.turnOrder) > 0
    /\ Len(turns) <= Len(room.turnOrder)
    /\ LET c == NextTurn(Ctx(room, pending))
       IN  /\ room' = c.r
           /\ out' = c.o
           /\ turns' = Append(IF turns = <<>> THEN <<Turn(room)>> ELSE turns,
                              Turn(c.r))
    /\ op' = Op("nextTurn", "", NoWord)
    /\ ret' = "none"
    /\ reply' = <<>>
    /\ verdict' = ""
    /\ UNCHANGED <<rooms, pending, crashed, winners, ending, stats, fault, other,
                   events>>

TurnNext ==
    \/ \E u \in Users : JoinRoom(u)
    \/ \E u \in Users : SocketStartGame(u)
    \/ \E u \in Users : LeaveRoom(u)
    \/ RoundTimerFires
    \/ NextTurnCalled

TurnSpec == Init /\ [][TurnNext]_vars

----------------------------------------------------------------------------
(* two rooms in the table and the endGame events for both: the runs of the   *)
(* handler share the Users table                                             *)

Enders == {UserName[i] : i \in 1..TwoRoomsUsers}

\* a room of one player or more, each with a score of 0..TwoRoomsPoints, its
\* expiry timer under handle h
ScoredRoom(h) ==
    {[NewRoom(LoadedWordList) EXCEPT !.playersMap = scores,
                                     !.roomExpiryTimer = h] :
        scores \in UNION {[S -> 0..TwoRoomsPoints] : S \in SUBSET Enders \ {{}}}}

TwoRoomsInit ==
    /\ fault = NoFault
    /\ room \in ScoredRoom(1)
    /\ other \in ScoredRoom(2)
    /\ rooms = {RoomId, OtherId}
    /\ pending = {[id |-> 1, kind |-> "expiry"], [id |-> 2, kind |-> "expiry"]}
    /\ crashed = FALSE
    /\ out = <<>>
    /\ reply = <<>>
    /\ op = Op("createRoom", Creator, NoWord)
    /\ ret = "none"
    /\ verdict = ""
    /\ winners = <<>>
    /\ ending = <<>>
    /\ stats = NewUsers
    /\ turns = <<>>
    /\ events = 0

\* the endGame event for the second room
OtherEndGame(u) ==
    /\ ~crashed
    /\ \/ /\ NotFound(OtherId, "endGame", u, NoWord, "Room not found")
       \/ /\ OtherId \in rooms
          /\ Len(ending) < MaxEnds
          /\ \E order \in Orderings(DOMAIN other.playersMap) :
               /\ winners' = DetermineWinner(Ctx(other, pending), order)
               /\ EndGameStep("endGame", Len(ending) + 1,
                              Append(ending, EndRun(OtherId, u, winners')), stats)

TwoRoomsNext ==
    \/ \E u \in Enders : SocketEndGame(u)
    \/ \E u \in Enders : OtherEndGame(u)
    \/ \E k \in 1..MaxEnds, ok \in BOOLEAN : StatsRead(k, ok)
    \/ \E k \in 1..MaxEnds, ok \in BOOLEAN : StatsWritten(k, ok)

TwoRoomsSpec == TwoRoomsInit /\ [][TwoRoomsNext]_vars

----------------------------------------------------------------------------
(* a server whose io.to(...).emit raises: always, or at the k-th call of     *)
(* each handler and timer callback                                           *)

FaultInit ==
    /\ fault \in {Always} \cup 1..MaxFault
    /\ room = NewRoom(LoadedWordList)
    /\ rooms = {RoomId}
    /\ pending = {[id |-> 1, kind |-> "expiry"]}
    /\ crashed = FALSE
    /\ out = <<>>
    /\ reply = <<Emit(Creator, "roomCreated", "Room created successfully")>>
    /\ op = Op("createRoom", Creator, NoWord)
    /\ ret = "none"
    /\ verdict = ""
    /\ winners = <<>>
    /\ ending = <<>>
    /\ stats = NewUsers
    /\ turns = <<>>
    /\ other = Null
    /\ events = 0

FaultSpec == FaultInit /\ [][Next]_vars

----------------------------------------------------------------------------
(* a room whose constructor could not read words.txt *)

NoWordsInit ==
    /\ fault = NoFault
    /\ room = NewRoom(FailedWordList)
    /\ rooms = {RoomId}
    /\ pending = {[id |-> 1, kind |-> "expiry"]}
    /\ crashed = FALSE
    /\ out = LoadWordListFailed(Ctx(room, pending)).o
    /\ reply = <<Emit(Creator, "roomCreated", "Room created successfully")>>
    /\ op = Op("createRoom", Creator, NoWord)
    /\ ret = "none"
    /\ verdict = ""
    /\ winners = <<>>
    /\ ending = <<>>
    /\ stats = NewUsers
    /\ turns = <<>>
    /\ other = Null
    /\ events = 0

NoWordsSpec == NoWordsInit /\ [][Next]_vars

----------------------------------------------------------------------------
(* join and leave events of more clients than a room has places *)

JoinOrLeave ==
    \/ \E u \in Joiners : JoinRoom(u)
    \/ \E u \in Joiners : LeaveRoom(u)

JoinSpec == Init /\ [][JoinOrLeave]_vars

----------------------------------------------------------------------------
(* Properties *)

Players == DOMAIN room.playersMap

\* the phase the three flags isRoomActive, isGameStarted, isGameEnded spell
Phase(r) ==
    CASE r.isRoomActive /\ ~r.isGameStarted /\ ~r.isGameEnded -> "Lobby"
      [] r.isRoomActive /\ r.isGameStarted /\ ~r.isGameEnded -> "InProgress"
      [] ~r.isRoomActive /\ ~r.isGameStarted /\ r.isGameEnded -> "Finished"
      [] OTHER -> "Invalid"

\* the step ran playWord and playWord returned true / false
Accepted == op'.name = "submitWord" /\ ret' = "true"

Rejected == op'.name = "submitWord" /\ ret' = "false"

\* the step ran the Room's startGame
StartCalled == op'.name = "startGame" /\ ret' # "none"

RoundTimers == {t \in pending : t.kind = "round"}

\* C1: during a game usedWordSet only grows, playWord accepts no word whose
\* lower-case form is in usedWordSet, and an accepted word's lower-case form
\* is in usedWordSet afterwards: no word is accepted twice in one game.
C1_NoWordAcceptedTwice ==
    [][ (room.isGameStarted /\ room'.isGameStarted) =>
          /\ room.usedWordSet \subseteq room'.usedWordSet
          /\ Accepted =>
                /\ ToLowerCase(op'.word) \notin room.usedWordSet
                /\ ToLowerCase(op'.word) \in room'.usedWordSet ]_vars

\* a word of usedWordSet that met the letter rule was submitted by the player
\* in turn, in a game, and turned down as used
C1_Witness ==
    /\ room.isGameStarted
    /\ op.name = "submitWord"
    /\ ret = "false"
    /\ verdict = "WordAlreadyUsed"
    /\ ToLowerCase(op.word) \in room.usedWordSet

\* The decision list of the specification: rule i applies under the condition
\* RuleApplies(i, ...) and answers RuleAnswer[i]; the answer to a submission
\* is that of the first rule that applies.
RuleApplies(i, username, word) ==
    CASE i = 1 -> username # room.currentTurn
      [] i = 2 -> \A d \in WordFile : Trim(ToLowerCase(word)) # d
      [] i = 3 -> room.lastWord = NoWord
      [] i = 4 -> Lower(CharAt0(word)) # LastChar(room.lastWord)
      [] i = 5 -> \E x \in room.usedWordSet : x = ToLowerCase(word)
      [] OTHER -> TRUE

RuleAnswer ==
    << [valid |-> FALSE, reason |-> "NotYourTurn"],
       [valid |-> FALSE, reason |-> "InvalidWord"],
       [valid |-> TRUE, reason |-> "FirstWord"],
       [valid |-> FALSE, reason |-> "WrongStartingLetter"],
       [valid |-> FALSE, reason |-> "WordAlreadyUsed"],
       [valid |-> TRUE, reason |-> "ValidWord"] >>

FirstApplicable(username, word) ==
    RuleAnswer[CHOOSE i \in 1..Len(RuleAnswer) :
                  /\ RuleApplies(i, username, word)
                  /\ \A j \in 1..(i - 1) : ~RuleApplies(j, username, word)]

\* C2: whenever a player submits a word, validateWordPlay answers what the
\* first applicable rule of the decision list answers in the state it was
\* called in, playWord accepts exactly when that answer is valid, and a
\* validation that fails leaves the room and its timers as they were.
C2_FirstApplicableRejection ==
    [][ (op'.name = "submitWord" /\ ret' # "none" /\ IsString(op'.word)) =>
          LET f == FirstApplicable(op'.user, op'.word)
          IN  /\ verdict' = f.reason
              /\ (ret' = "true") = f.valid
              /\ ~f.valid => (room' = room /\ pending' = pending) ]_vars

\* the player in turn submitted a used word that also breaks the letter rule,
\* and was told of the letter
C2_Witness ==
    /\ op.name = "submitWord"
    /\ op.user = room.currentTurn
    /\ ToLowerCase(op.word) \in room.usedWordSet
    /\ Lower(CharAt0(op.word)) # LastChar(room.lastWord)
    /\ verdict = "WrongStartingLetter"

\* C3 (as claimed): a playWord that fails validation changes nothing and
\* emits one notification, wordPlayFailed to the player who submitted.
C3_RejectionToldToSubmitterOnly ==
    [][ (Rejected /\ IsString(op'.word)) =>
          /\ room' = room
          /\ pending' = pending
          /\ rooms' = rooms
          /\ out' = <<Notif("wordPlayFailed", op'.user, "", NoWord, verdict')>> ]_vars

\* the entry of seq that follows the first u, cyclically
NextAfter(seq, u) ==
    LET k == CHOOSE i \in 1..Len(seq) : seq[i] = u /\ \A j \in 1..(i - 1) : seq[j] # u
    IN  seq[(k % Len(seq)) + 1]

\* C4 (as claimed), for a game whose turn order holds exactly the players:
\* an accepted playWord adds word.length to the submitter's score and to no
\* other, puts the lower-case word in usedWordSet and lastWord, passes the
\* turn to the next entry of turnOrder, and leaves one round timer pending,
\* the one the roundTimer field holds.
C4_AcceptedPlay ==
    [][ ( /\ Accepted
          /\ room.isGameStarted
          /\ Range(room.turnOrder) = Players
          /\ op'.user \in Players ) =>
          /\ DOMAIN room'.playersMap = Players
          /\ \A p \in Players :
                room'.playersMap[p] =
                    room.playersMap[p] + (IF p = op'.user THEN Len(op'.word) ELSE 0)
          /\ room'.usedWordSet = room.usedWordSet \cup {ToLowerCase(op'.word)}
          /\ room'.lastWord = ToLowerCase(op'.word)
          /\ room'.turnOrder = room.turnOrder
          /\ room'.currentTurn = NextAfter(room.turnOrder, op'.user)
          /\ {t \in pending' : t.kind = "round"} =
                {[id |-> room'.roundTimer, kind |-> "round"]} ]_vars

\* the scenario: A and B play, A has played "apple" for 5 points, B is in turn
Scenario5 ==
    /\ room.isGameStarted
    /\ room.turnOrder = <<"A", "B">>
    /\ Players = {"A", "B"}
    /\ room.playersMap["A"] = 5
    /\ room.playersMap["B"] = 0
    /\ room.usedWordSet = {apple}
    /\ room.lastWord = apple
    /\ room.currentTurn = "B"
    /\ room.currentTurnIndex = 1

\* C5 (as claimed): in the scenario B's "apple" is turned down as used.
C5_AppleRejectedAsUsed ==
    [][ (Scenario5 /\ op' = Op("submitWord", "B", apple)) =>
          (ret' = "false" /\ verdict' = "WordAlreadyUsed") ]_vars

\* C5 (amended): in the scenario B's "apple" is turned down for its first
\* letter, nothing changing, and B's "elephant" is accepted: B has 8 points
\* and the turn is A's.
C5_AppleRejectedForLetter ==
    [][ Scenario5 =>
          /\ op' = Op("submitWord", "B", apple) =>
                /\ ret' = "false"
                /\ verdict' = "WrongStartingLetter"
                /\ room' = room
          /\ op' = Op("submitWord", "B", elephant) =>
                /\ ret' = "true"
                /\ room'.playersMap["B"] = 8
                /\ room'.playersMap["A"] = 5
                /\ room'.currentTurn = "A" ]_vars

\* B has submitted "apple" in the scenario
C5_Witness ==
    /\ Scenario5
    /\ op = Op("submitWord", "B", apple)
    /\ ret = "false"
    /\ verdict = "WrongStartingLetter"

\* C6 (as claimed): right after a startGame that returned true the creator is
\* first in turnOrder and turnOrder lists each player once and nobody else.
C6_TurnOrderIsThePlayers ==
    (op.name = "startGame" /\ ret = "true") =>
        /\ room.turnOrder[1] = Creator
        /\ Range(room.turnOrder) = Players
        /\ Len(room.turnOrder) = Cardinality(Players)

\* C7: right after a startGame that returned true the turn is at index 0 and
\* with the first of turnOrder, no word is used, there is no last word, the
\* phase is InProgress, the game-end timer is pending and one round timer is.
C7_StartGameResets ==
    (op.name = "startGame" /\ ret = "true") =>
        /\ room.currentTurnIndex = 0
        /\ room.currentTurn = room.turnOrder[1]
        /\ room.usedWordSet = {}
        /\ room.lastWord = NoWord
        /\ Phase(room) = "InProgress"
        /\ [id |-> room.gameEndTimer, kind |-> "gameEnd"] \in pending
        /\ RoundTimers = {[id |-> room.roundTimer, kind |-> "round"]}

\* a game started after a word had been played and had scored in the lobby
C7_Witness ==
    /\ op.name = "startGame"
    /\ ret = "true"
    /\ \E p \in Players : room.playersMap[p] > 0

\* C8: startGame in the lobby with fewer than two players returns false,
\* broadcasts gameStartedFailed and nothing else, and changes no field and no
\* timer: the phase stays Lobby.
C8_StartNeedsTwoPlayers ==
    [][ (StartCalled /\ ~room.isGameStarted /\ Cardinality(Players) < 2) =>
          /\ ret' = "false"
          /\ out' = <<Notif("gameStartedFailed", "room", "", NoWord,
                             "Not enough players")>>
          /\ room' = room
          /\ pending' = pending
          /\ Phase(room') = "Lobby" ]_vars

\* startGame was called in a lobby of fewer than two players
C8_Witness ==
    /\ op.name = "startGame"
    /\ ret = "false"
    /\ ~room.isGameStarted
    /\ Cardinality(Players) < 2
    /\ "gameStartedFailed" \in Events(out)

\* C9: startGame on a started game returns false, changes no field and no
\* timer, and the Room emits nothing.
C9_StartOfStartedGame ==
    [][ (StartCalled /\ room.isGameStarted) =>
          /\ ret' = "false"
          /\ room' = room
          /\ pending' = pending
          /\ out' = <<>> ]_vars

\* startGame was called on a game of two players or more with a word played
C9_Witness ==
    /\ op.name = "startGame"
    /\ ret = "false"
    /\ room.isGameStarted
    /\ Cardinality(Players) >= 2
    /\ room.usedWordSet # {}

\* C10: the three flags always spell Lobby, InProgress or Finished.
C10_ValidPhase == Phase(room) \in {"Lobby", "InProgress", "Finished"}

\* a game is in progress, a word played
C10_Witness ==
    /\ Phase(room) = "InProgress"
    /\ room.usedWordSet # {}

\* the step ran the Room's endGame from the game-end timer's callback
EndGameCalled == op'.name = "gameEndTimer"

\* the step ran removePlayer for a player of the room
Removed == op'.name = "leaveRoom" /\ ret' # "none" /\ op'.user \in Players

\* C12 (as claimed): endGame on a room in progress returns with the room
\* Finished, no timer pending and gameEnded broadcast to the room.
C12_EndGameFinishes ==
    [][ (EndGameCalled /\ Phase(room) = "InProgress") =>
          /\ ret' # "threw"
          /\ Phase(room') = "Finished"
          /\ pending' = {}
          /\ \E i \in 1..Len(out') :
                out'[i].ev = "gameEnded" /\ out'[i].to = "room" ]_vars

\* C15 (as claimed, in the form a finite run refutes): once the game-end
\* timer armed by startGame has fired, the room is Finished.
C15_FinishedWhenGameEndTimerFired ==
    op.name = "gameEndTimer" => Phase(room) = "Finished"

\* C16 (as claimed): a removePlayer that leaves a game in progress with fewer
\* than two players makes the room Finished and leaves no round timer pending.
C16_TooFewPlayersEndsGame ==
    [][ ( /\ Removed
          /\ Phase(room) = "InProgress"
          /\ Cardinality(DOMAIN room'.playersMap) < 2 ) =>
          /\ Phase(room') = "Finished"
          /\ {t \in pending' : t.kind = "round"} = {} ]_vars

\* C17 (as claimed): after removePlayer of the player who held the turn,
\* currentTurn names a player of the room, or nobody.
C17_TurnNeverWithAbsentPlayer ==
    [][ (Removed /\ room.currentTurn = op'.user) =>
          room'.currentTurn \in DOMAIN room'.playersMap \cup {Undefined} ]_vars

\* C18 (as claimed), for a game whose turn order holds exactly the players:
\* when the round timer fires, turnTimedOut naming the player in turn is
\* broadcast, no score, used word or last word changes, the turn passes to
\* the next entry of turnOrder and one round timer, the field's, is pending.
C18_RoundTimeout ==
    [][ ( /\ op'.name = "roundTimer"
          /\ room.isGameStarted
          /\ Range(room.turnOrder) = Players
          /\ room.currentTurn \in Players ) =>
          /\ \E i \in 1..Len(out') :
                out'[i] = Notif("turnTimedOut", "room", room.currentTurn, NoWord, "")
          /\ room'.playersMap = room.playersMap
          /\ room'.usedWordSet = room.usedWordSet
          /\ room'.lastWord = room.lastWord
          /\ room'.currentTurn = NextAfter(room.turnOrder, room.currentTurn)
          /\ {t \in pending' : t.kind = "round"} =
                {[id |-> room'.roundTimer, kind |-> "round"]} ]_vars

\* C19 (as claimed, in the form a finite run refutes): while a game is in
\* progress with two or more in turnOrder and the process runs, a round timer
\* is pending, so that the turn passes without the player in turn acting.
C19_RoundTimerPendingInGame ==
    (Phase(room) = "InProgress" /\ Len(room.turnOrder) >= 2 /\ ~crashed) =>
        RoundTimers # {}

\* C20: a step that has a word accepted starts from at most one pending
\* round timer and leaves exactly one, the one startRound has just armed and
\* the roundTimer field holds: the timer of the round the word was played in
\* is cancelled and its callback cannot run.  The word advances the turn index
\* by one position, once.
C20_AcceptedWordCancelsTimeout ==
    [][ Accepted =>
          /\ Cardinality(RoundTimers) <= 1
          /\ {t \in pending' : t.kind = "round"} =
                {[id |-> room'.roundTimer, kind |-> "round"]}
          /\ room'.currentTurnIndex =
                NextIndex(room.currentTurnIndex, Len(room.turnOrder)) ]_vars

\* a word was accepted in a game from the last position of turnOrder, so in
\* a round that a play or a timeout had started: one round timer is pending
C20_Witness ==
    /\ op.name = "submitWord"
    /\ ret = "true"
    /\ room.isGameStarted
    /\ Len(room.turnOrder) >= 2
    /\ room.currentTurnIndex = 0
    /\ room.usedWordSet # {}
    /\ Cardinality(RoundTimers) = 1

\* the players of the room with the highest score
TopScorers ==
    {p \in Players : \A q \in Players : room.playersMap[q] <= room.playersMap[p]}

\* C14: what determineWinner returns for a score map that is not empty lists
\* exactly the players whose score is the highest, each once.
C14_WinnersAreTopScorers ==
    op.name = "determineWinner" =>
        /\ Range(winners) = TopScorers
        /\ Len(winners) = Cardinality(TopScorers)

\* determineWinner was applied to a map with two players tied at the highest
\* score, above 0, and a player below it
C14_Witness ==
    /\ op.name = "determineWinner"
    /\ Cardinality(TopScorers) = 2
    /\ Cardinality(Players) = 3
    /\ \A p \in TopScorers : room.playersMap[p] > 0
    /\ Cardinality(Range(winners)) = 2

\* C22 (as claimed): once the room-expiry timer has fired, roomDeleted was
\* broadcast, no timer of the room is pending and the table no longer maps
\* the room's id.
C22_ExpiryDestroysRoom ==
    op.name = "roomExpiryTimer" =>
        /\ "roomDeleted" \in Events(out)
        /\ pending = {}
        /\ RoomId \notin rooms

\* C23 (as claimed): the table maps no room without players.
C23_NoEmptyRoomInTable ==
    Players = {} => RoomId \notin rooms

\* C29 (as claimed): while the game is started and not ended, currentTurn is
\* an entry of turnOrder.
C29_TurnHolderInTurnOrder ==
    (room.isGameStarted /\ ~room.isGameEnded) =>
        room.currentTurn \in Range(room.turnOrder)

\* C30 (as claimed, for the rooms whose turnOrder has an entry): the index
\* is within turnOrder and currentTurn is the entry it points at.
C30_IndexPointsAtTurnHolder ==
    Len(room.turnOrder) > 0 =>
        /\ room.currentTurnIndex \in 0..(Len(room.turnOrder) - 1)
        /\ room.currentTurn = At(room.turnOrder, room.currentTurnIndex)

\* C24: under any interleaving of join and leave events the room never has
\* more than maxPlayers players, and addPlayer on a room of maxPlayers
\* players returns false and leaves playersMap as it was.
C24_RoomNeverOverfull ==
    /\ [](Cardinality(Players) <= maxPlayers)
    /\ [][ ( /\ op'.name = "joinRoom"
             /\ ret' # "none"
             /\ Cardinality(Players) = maxPlayers ) =>
             /\ ret' = "false"
             /\ room'.playersMap = room.playersMap ]_vars

\* a fifth client asked to join a room of four and was turned down with the
\* error "Room is full"
C24_Witness ==
    /\ op.name = "joinRoom"
    /\ ret = "false"
    /\ Cardinality(Players) = maxPlayers
    /\ op.user \notin Players
    /\ \E i \in 1..Len(out) : out[i].reason = "Room is full"

\* C28: when loadWordList fails the constructor still leaves a room in the
\* lobby with the creator as its only player and has emitted errorOccurred
\* to the room; from then on every playWord returns false and changes no
\* field of the room and no timer.
C28_NoWordListNoPlay ==
    /\ [](op.name = "createRoom" =>
            /\ Players = {Creator}
            /\ Phase(room) = "Lobby"
            /\ \E i \in 1..Len(out) :
                  out[i].ev = "errorOccurred" /\ out[i].to = "room")
    /\ [][ (op'.name = "submitWord" /\ ret' # "none") =>
             /\ ret' = "false"
             /\ room' = room
             /\ pending' = pending ]_vars

\* in a game of the room without a word list the player in turn submitted
\* a word of words.txt, and it was turned down for the error of the lookup
C28_Witness ==
    /\ ~room.validWords.loaded
    /\ room.isGameStarted
    /\ op.name = "submitWord"
    /\ op.user = room.currentTurn
    /\ op.word = apple
    /\ ret = "false"
    /\ verdict = "UnexpectedError"

\* the runs of the endGame handler that have broadcast gameEnded
EndsDone == {k \in DOMAIN ending : ending[k].pc = "done"}

\* C21 (as claimed): once the room is Finished or out of the table, none of
\* its timers is pending.
C21_NoTimerOfARemovedRoom ==
    (Phase(room) = "Finished" \/ RoomId \notin rooms) => pending = {}

\* C25: no run of the endGame handler ends in the handler's outer catch on
\* account of a winner's update; the step in which the read or the write for
\* a winner is rejected takes the run to the read for the next winner, or,
\* after the last winner, to its end; the step that ends a run broadcasts
\* gameEnded to the room and takes the room out of the table; and a run that
\* waits for a read or a write can always resume while the process runs.
C25_StatsFailureStopsNothing ==
    /\ [](\A k \in DOMAIN ending :
            /\ ending[k].pc # "failed"
            /\ (ending[k].pc \in {"read", "write"} /\ ~crashed
                    /\ events < MaxEvents) =>
                  ENABLED (StatsRead(k, TRUE) \/ StatsWritten(k, TRUE)))
    /\ [][ \A k \in DOMAIN ending :
             LET e == ending[k]
                 e2 == ending'[k]
             IN  /\ e2.logged # e.logged =>
                       /\ e2.logged = e.logged \cup {e.winners[e.i]}
                       /\ e.i < Len(e.winners) => (e2.pc = "read" /\ e2.i = e.i + 1)
                       /\ e.i = Len(e.winners) => e2.pc = "done"
                 /\ (e.pc = "write" /\ e2 # e /\ e2.logged = e.logged) =>
                       stats'[e.winners[e.i]] =
                          [gamesPlayed |-> e.got.gamesPlayed + 1,
                           gamesWon |-> e.got.gamesWon + 1]
                 /\ (e.pc # "done" /\ e2.pc = "done") =>
                       /\ \E i \in 1..Len(reply') :
                             reply'[i].ev = "gameEnded" /\ reply'[i].to = "room"
                       /\ RoomId \notin rooms' ]_vars

\* a run for two winners has ended: the update of the first was rejected,
\* the second winner's counters were incremented, gameEnded was broadcast
\* and the room is out of the table
C25_Witness ==
    \E k \in EndsDone :
        /\ Len(ending[k].winners) = 2
        /\ ending[k].logged = {ending[k].winners[1]}
        /\ stats[ending[k].winners[2]] = [gamesPlayed |-> 1, gamesWon |-> 1]
        /\ op.name = "statsWritten"
        /\ reply = <<Notif("gameEnded", "room", "", NoWord, "")>>
        /\ RoomId \notin rooms

\* C26 (as claimed): whatever endGame events arrive for the room and however
\* the steps of their handlers interleave, gameEnded is broadcast once at
\* most and no user's counters are incremented more than once.
C26_EndsOnce ==
    /\ Cardinality(EndsDone) <= 1
    /\ \A u \in Range(UserName) :
          stats[u].gamesPlayed <= 1 /\ stats[u].gamesWon <= 1

\* playWord run where no emit raises
PlayWordUnfailing(username, word) ==
    PlayWord([Ctx(room, pending) EXCEPT !.f = NoFault], username, word)

\* C27 (as claimed): whether one emit raises or all do, no Room method
\* raises for it (endGame raises by itself), and playWord makes the
\* transition and returns the value it does when no emit raises: an accepted
\* word adds the score and the used word, sets lastWord, advances the turn
\* and arms the round timer.
C27_EmitFailureNeverRaises ==
    [][ /\ op'.name # "gameEndTimer" => ret' # "threw"
        /\ (op'.name = "submitWord" /\ ret' # "none") =>
              LET g == PlayWordUnfailing(op'.user, op'.word)
              IN  /\ ret' = RetOf(g)
                  /\ room' = g.r
                  /\ pending' = g.p ]_vars

\* C31 (as claimed): while the game is in progress and turnOrder has an
\* entry, exactly one round timer is pending.
C31_OneRoundTimerInGame ==
    (Phase(room) = "InProgress" /\ Len(room.turnOrder) > 0) =>
        Cardinality(RoundTimers) = 1

\* C32 (as claimed): after as many calls of nextTurn in a row as turnOrder
\* has entries, currentTurn and currentTurnIndex are what they were before
\* the first call, and the turns taken in between are the entries of
\* turnOrder, each once.
C32_NextTurnCycles ==
    (Len(room.turnOrder) > 0 /\ Len(turns) = Len(room.turnOrder) + 1) =>
        /\ turns[Len(turns)] = turns[1]
        /\ {turns[i].who : i \in 2..Len(turns)} = Range(room.turnOrder)


\* C33 (as claimed): a playWord call on a room that is not InProgress is
\* rejected and changes no score, usedWordSet, lastWord or currentTurn and
\* arms no round timer; and when startGame starts a game every player's score
\* is 0.
C33_WordsOnlyInGame ==
    [][ /\ (op'.name = "submitWord" /\ ret' # "none"
              /\ Phase(room) # "InProgress") =>
                 /\ ret' = "false"
                 /\ room'.playersMap = room.playersMap
                 /\ room'.usedWordSet = room.usedWordSet
                 /\ room'.lastWord = room.lastWord
                 /\ room'.currentTurn = room.currentTurn
                 /\ RoundTimers' \subseteq RoundTimers
        /\ (StartCalled /\ ret' = "true") =>
                 \A u \in DOMAIN room'.playersMap : room'.playersMap[u] = 0
      ]_vars


\* C34 (as claimed): a startGame, submitWord, leaveRoom or endGame event sent
\* for the room by a user who is not in playersMap leaves the room's phase,
\* scores, usedWordSet, lastWord, turn state and timers as they were and
\* leaves the room in the table.
C34_NonMemberChangesNothing ==
    [][ (/\ op'.name \in {"startGame", "submitWord", "leaveRoom", "endGame"}
         /\ RoomId \in rooms
         /\ op'.user \notin Players) =>
            /\ Phase(room') = Phase(room)
            /\ room'.playersMap = room.playersMap
            /\ room'.usedWordSet = room.usedWordSet
            /\ room'.lastWord = room.lastWord
            /\ Turn(room') = Turn(room)
            /\ room'.turnOrder = room.turnOrder
            /\ pending' = pending
            /\ RoomId \in rooms'
      ]_vars


\* C35 (as claimed): while the game is in progress the identities in
\* turnOrder are exactly the keys of playersMap.
C35_TurnOrderIsThePlayers ==
    Phase(room) = "InProgress" => Range(room.turnOrder) = Players


\* C36 (as claimed): when removePlayer removes the player in turn and at
\* least two other players remain in turnOrder, the turn passes to the entry
\* that followed the removed player in turnOrder, cyclically.
C36_TurnPassesToFollower ==
    [][ (/\ Removed
         /\ op'.user = room.currentTurn
         /\ op'.user \in Range(room.turnOrder)
         /\ Len(room.turnOrder) >= 3) =>
            room'.currentTurn = NextAfter(room.turnOrder, op'.user)
      ]_vars


\* C37 (as claimed): whenever removePlayer returns false, playersMap,
\* turnOrder, currentTurn and currentTurnIndex are as before the call.
C37_FalseMeansUnchanged ==
    [][ (op'.name = "leaveRoom" /\ ret' = "false") =>
            /\ room'.playersMap = room.playersMap
            /\ room'.turnOrder = room.turnOrder
            /\ Turn(room') = Turn(room)
      ]_vars


\* C38 (as claimed): when the endGame handler has run to its end for two
\* different rooms, with the steps of the two runs in any order, a user who
\* is a winner of both and whose updates were not rejected has gamesWon and
\* gamesPlayed increased by 2.
C38_NoLostUpdate ==
    \A u \in Users : \A k1, k2 \in EndsDone :
        (/\ ending[k1].roomId # ending[k2].roomId
         /\ u \in Range(ending[k1].winners) \cap Range(ending[k2].winners)
         /\ u \notin ending[k1].logged \cup ending[k2].logged) =>
            /\ stats[u].gamesWon >= NoStats.gamesWon + 2
            /\ stats[u].gamesPlayed >= NoStats.gamesPlayed + 2

=============================================================================
